---- MODULE Spec2Model ----
(***************************************************************************)
(* Model of package api (handlers/handlers.go): the four HTTP handlers     *)
(* HomeHandler, ArtistsHandler, ArtistHandler and SearchHandler, the       *)
(* shared renderError, and the pure search loops.                          *)
(*                                                                         *)
(* Go strings are sequences of one-character strings, so that              *)
(* strings.Contains, strings.ToLower, strings.Split, strings.HasPrefix,    *)
(* strconv.Itoa and strconv.Atoi are computed, not assumed.                *)
(***************************************************************************)
EXTENDS Integers, Sequences, FiniteSets

\* ---------------------------------------------------------------- bounds
\* Longest artist list the upstream API returns in the model.
MaxArtists == 2
\* Longest value of the q / query parameter.
MaxQueryLen == 2
\* Longest path suffix appended to a route prefix.
MaxTail == 3

\* ------------------------------------------------------- string library
\* All sequences over S of length at most n.
RECURSIVE SeqsUpTo(_, _)
SeqsUpTo(S, n) ==
    IF n = 0 THEN {<<>>}
    ELSE LET shorter == SeqsUpTo(S, n - 1)
         IN  shorter \cup {Append(s, c) : s \in shorter, c \in S}

\* unicode.ToLower on the letters the model uses.
LowerChar(c) ==
    CASE c = "A" -> "a"
      [] c = "B" -> "b"
      [] OTHER -> c

\* strings.ToLower
ToLower(s) == [i \in 1..Len(s) |-> LowerChar(s[i])]

\* strings.Contains(s, substr)
Contains(s, substr) ==
    \E i \in 0..(Len(s) - Len(substr)) :
        SubSeq(s, i + 1, i + Len(substr)) = substr

\* strings.HasPrefix(s, prefix)
HasPrefix(s, prefix) ==
    /\ Len(s) >= Len(prefix)
    /\ SubSeq(s, 1, Len(prefix)) = prefix

\* strings.Split(s, "/"): the segments between the separators; a string
\* with n separators splits into n + 1 segments, empty ones included.
RECURSIVE SplitFrom(_, _, _)
SplitFrom(s, i, cur) ==
    IF i > Len(s) THEN <<cur>>
    ELSE IF s[i] = "/" THEN <<cur>> \o SplitFrom(s, i + 1, <<>>)
    ELSE SplitFrom(s, i + 1, Append(cur, s[i]))

Split(s) == SplitFrom(s, 1, <<>>)

Digits == <<"0", "1", "2", "3", "4", "5", "6", "7", "8", "9">>

IsDigit(c) == \E d \in 1..10 : Digits[d] = c

DigitVal(c) == (CHOOSE d \in 1..10 : Digits[d] = c) - 1

\* strconv.Itoa
RECURSIVE ItoaNat(_)
ItoaNat(n) ==
    IF n < 10 THEN <<Digits[n + 1]>>
    ELSE Append(ItoaNat(n \div 10), Digits[(n % 10) + 1])

Itoa(n) == IF n < 0 THEN <<"-">> \o ItoaNat(-n) ELSE ItoaNat(n)

\* strconv.Atoi: an optional sign followed by at least one decimal digit;
\* anything else is an error.  The result is [err, val].
RECURSIVE DigitsVal(_, _)
DigitsVal(s, acc) ==
    IF s = <<>> THEN acc
    ELSE DigitsVal(Tail(s), acc * 10 + DigitVal(Head(s)))

Atoi(s) ==
    LET signed == s # <<>> /\ Head(s) \in {"+", "-"}
        body   == IF signed THEN Tail(s) ELSE s
        ok     == body # <<>> /\ \A i \in 1..Len(body) : IsDigit(body[i])
    IN  IF ~ok THEN [err |-> TRUE, val |-> 0]
        ELSE [err |-> FALSE,
              val |-> IF signed /\ Head(s) = "-"
                      THEN -DigitsVal(body, 0) ELSE DigitsVal(body, 0)]

\* ------------------------------------------------------------ upstream data
\* type Artist, as the handlers read it (ID, Name, Members, Locations,
\* ConcertDates, FirstAlbum, CreationDate).
Artist(id, name, members, locations, concertDates, firstAlbum, creationDate) ==
    [ID |-> id, Name |-> name, Members |-> members, Locations |-> locations,
     ConcertDates |-> concertDates, FirstAlbum |-> firstAlbum,
     CreationDate |-> creationDate]

\* The Go zero value of Artist.
ZeroArtist == Artist(0, <<>>, <<>>, <<>>, <<>>, <<>>, 0)

\* Artist records the upstream API may return.  Each one exercises another
\* combination of the fields the two search loops read.
ArtistPool ==
    { Artist(1, <<"a", "B">>, <<>>, <<>>, <<>>, <<>>, 2),
      Artist(2, <<"1">>, << <<"a">>, <<"B", "1">> >>, <<>>, <<>>, <<"B", "1">>, 11),
      Artist(3, <<"3">>, << <<"B", "a">> >>, <<"a", "B">>, <<>>, <<"a">>, 1),
      Artist(4, <<"4">>, <<>>, <<>>, <<"a", "B", "1">>, <<>>, 0),
      Artist(5, <<"5">>, << <<"1">> >>, <<>>, <<"b">>, <<"1", "a">>, 1),
      Artist(6, <<"2">>, <<>>, <<>>, <<>>, <<>>, 2) }

\* The lists ReadArtists may return.
ArtistLists == SeqsUpTo(ArtistPool, MaxArtists)

\* What ReadArtist may decode: an artist, or a body without an id.
ArtistResults == ArtistPool \cup {ZeroArtist}

\* Values of DateEntry, Location and Relation; "" is the zero value.
DateEntries == {"dates-A", "dates-B"}
LocationValues == {"locations-A", "locations-B"}
RelationValues == {"relations-A", "relations-B"}

\* ----------------------------------------------------------- search loops
\* searchArtistsStep with ConcertDates lower-cased like the other fields
\* and without the comparison of the creation year.
searchArtistsStep_NoYear(results, artist, query) ==
    IF Contains(ToLower(artist.Name), query)
    THEN Append(results, artist)
    ELSE LET afterMembers ==
                 IF \E m \in 1..Len(artist.Members) :
                        Contains(ToLower(artist.Members[m]), query)
                 THEN Append(results, artist)
                 ELSE results
         IN  IF Contains(ToLower(artist.Locations), query)
             THEN Append(afterMembers, artist)
             ELSE IF Contains(ToLower(artist.ConcertDates), query)
             THEN Append(afterMembers, artist)
             ELSE afterMembers

\* searchArtists, the body of the loop for one artist: results after the
\* artist has been examined.  `continue` ends the examination, the `break`
\* of the member loop only ends the member loop.
searchArtistsStep(results, artist, query) ==
    IF Contains(ToLower(artist.Name), query)
    THEN Append(results, artist)
    ELSE LET afterMembers ==
                 IF \E m \in 1..Len(artist.Members) :
                        Contains(ToLower(artist.Members[m]), query)
                 THEN Append(results, artist)
                 ELSE results
             creationYear == Atoi(query)
         IN  IF Contains(ToLower(artist.Locations), query)
             THEN Append(afterMembers, artist)
             ELSE IF Contains(artist.ConcertDates, query)
             THEN Append(afterMembers, artist)
             ELSE IF ~creationYear.err /\ artist.CreationDate = creationYear.val
             THEN Append(afterMembers, artist)
             ELSE afterMembers

RECURSIVE searchArtistsLoop(_, _, _)
searchArtistsLoop(results, artists, query) ==
    IF artists = <<>> THEN results
    ELSE searchArtistsLoop(searchArtistsStep(results, Head(artists), query),
                           Tail(artists), query)

searchArtists(artists, query) == searchArtistsLoop(<<>>, artists, ToLower(query))

\* type SearchResult
SearchResult(name, type) == [Name |-> name, Type |-> type]

\* SearchResultsStep with the creation date tested before the first album.
SearchResultsStep_DateFirst(results, artist, lowerQuery) ==
    LET afterDate ==
            IF Contains(Itoa(artist.CreationDate), lowerQuery)
            THEN Append(results, SearchResult(artist.Name, "creation date"))
            ELSE results
    IN  IF Contains(ToLower(artist.FirstAlbum), lowerQuery)
        THEN Append(afterDate, SearchResult(artist.Name, "first album date"))
        ELSE afterDate

\* SearchHandler, the body of the loop for one artist.
SearchResultsStep(results, artist, lowerQuery) ==
    LET afterAlbum ==
            IF Contains(ToLower(artist.FirstAlbum), lowerQuery)
            THEN Append(results, SearchResult(artist.Name, "first album date"))
            ELSE results
    IN  IF Contains(Itoa(artist.CreationDate), lowerQuery)
        THEN Append(afterAlbum, SearchResult(artist.Name, "creation date"))
        ELSE afterAlbum

RECURSIVE SearchResultsLoop(_, _, _)
SearchResultsLoop(results, artists, lowerQuery) ==
    IF artists = <<>> THEN results
    ELSE SearchResultsLoop(SearchResultsStep(results, Head(artists), lowerQuery),
                           Tail(artists), lowerQuery)

SearchResults(artists, query) == SearchResultsLoop(<<>>, artists, ToLower(query))

\* ------------------------------------------------------- requests
MethodGet == "GET"

Methods == {"GET", "POST"}

\* Route prefixes; a request path is a prefix followed by a suffix of
\* slashes and ones, and always starts with a slash.
PathPrefixes ==
    { <<>>,
      <<"/", "a", "r", "t", "i", "s", "t">>,
      <<"/", "a", "r", "t", "i", "s", "t", "s">> }

Paths ==
    { p \in { pre \o t : pre \in PathPrefixes, t \in SeqsUpTo({"/", "1"}, MaxTail) } :
        p # <<>> /\ p[1] = "/" }

\* Values of the q and query parameters.
Queries == SeqsUpTo({"a", "B", "1"}, MaxQueryLen)

\* Values of the section parameter ("members" is not a section).
Sections == {"", "locations", "dates", "relations", "all", "members"}

Request(method, path, q, section, query) ==
    [Method |-> method, Path |-> path, q |-> q, section |-> section,
     query |-> query]

\* ------------------------------------------------------- state
VARIABLES
    handler,          \* the handler serving the current request
    r,                \* the request
    pc,               \* where the handler is: "idle", "entry", the upstream
                      \* call it waits for, or "done"
    fetches,          \* upstream GETs issued for this request, in order
    returned,         \* what each of them returned, in order: [err, val]
    result,           \* ArtistsHandler: the list ReadArtists returned
    artists,          \* SearchHandler: the list ReadArtists returned
    artistResult,     \* ArtistHandler: what ReadArtist returned
    datesResult,      \* ArtistHandler: what ReadDate returned
    locationsResult,  \* ArtistHandler: what ReadLocation returned
    relationsResult,  \* ArtistHandler: what ReadRelations returned
    w,                \* the http.ResponseWriter
    executed,         \* Execute calls on page templates: <<name, data>>
    logs              \* log.Printf calls

vars == <<handler, r, pc, fetches, returned, result, artists, artistResult, datesResult,
          locationsResult, relationsResult, w, executed, logs>>

locals == <<result, artists, artistResult, datesResult, locationsResult,
            relationsResult>>

\* ------------------------------------------------------- ResponseWriter
\* A fresh ResponseWriter: no header sent (status 0), nothing written.
NewResponseWriter == [status |-> 0, headerCalls |-> <<>>, body |-> <<>>]

\* w.WriteHeader(status): the first header sent fixes the status; a later
\* call is counted but changes nothing on the wire.
WriteHeader(rw, status) ==
    [rw EXCEPT !.headerCalls = Append(@, status),
               !.status = IF @ = 0 THEN status ELSE @]

\* w.Write(chunk): sends the header with status 200 if none was sent.
Write(rw, chunk) ==
    [rw EXCEPT !.status = IF @ = 0 THEN 200 ELSE @,
               !.body = Append(@, chunk)]

Chunk(kind, name, code, message, data, complete) ==
    [kind |-> kind, name |-> name, code |-> code, message |-> message,
     data |-> data, complete |-> complete]

\* renderError: Init, WriteHeader(status), errorTemplate.Execute.  `ok` is
\* whether the execution of the error template succeeded.
renderError(rw, status, message, ok) ==
    Write(WriteHeader(rw, status),
          Chunk("error", "error.html", status, message, <<>>, ok))

\* The log line of renderError when the error template fails.
renderErrorLog(lg, ok) ==
    IF ok THEN lg ELSE Append(lg, "Error rendering error template")

\* Outcomes of template.Execute(w, data): everything written, an error
\* after part of the output was written, an error before any output.
ExecOutcomes == {"ok", "partial", "none"}

\* temp.Execute(w, data) on a page template.
Execute(rw, name, data, outcome) ==
    IF outcome = "none" THEN rw
    ELSE Write(rw, Chunk("template", name, 0, "", data, outcome = "ok"))

\* json.NewEncoder(w).Encode(data), after the Content-Type header is set.
EncodeJSON(rw, data) == Write(rw, Chunk("json", "", 0, "", data, TRUE))

\* The tail every handler shares: parse the page template, execute it with
\* data, and call renderError when either fails.
RenderTemplate(name, data, parsed, outcome, errOk) ==
    IF ~parsed
    THEN /\ w' = renderError(w, 500, "Error loading template", errOk)
         /\ logs' = renderErrorLog(logs, errOk)
         /\ executed' = executed
    ELSE /\ executed' = Append(executed, <<name, data>>)
         /\ IF outcome = "ok"
            THEN /\ w' = Execute(w, name, data, outcome)
                 /\ logs' = logs
            ELSE /\ w' = renderError(Execute(w, name, data, outcome), 500,
                                     "Error executing template", errOk)
                 /\ logs' = renderErrorLog(logs, errOk)

\* A handler that ends with renderError(w, status, message).
Fail(status, message, errOk) ==
    /\ w' = renderError(w, status, message, errOk)
    /\ logs' = renderErrorLog(logs, errOk)
    /\ executed' = executed
    /\ pc' = "done"

\* ------------------------------------------------------- upstream API
ArtistsURL == "https://groupietrackers.herokuapp.com/api/artists"
ArtistURL == "https://groupietrackers.herokuapp.com/api/artists/"
DatesURL == "https://groupietrackers.herokuapp.com/api/dates/"
LocationsURL == "https://groupietrackers.herokuapp.com/api/locations/"
RelationsURL == "https://groupietrackers.herokuapp.com/api/relation/"

\* One upstream GET: the base URL and the id appended to it.
Fetch(url, id) == [url |-> url, id |-> id]

\* What a Read* call may return: an error, or one of the values.
Returns(values, zero) ==
    {[err |-> TRUE, val |-> zero]} \cup {[err |-> FALSE, val |-> v] : v \in values}

NoCheckFailed == [code |-> 0, message |-> ""]

CheckFailed(code, message) == [code |-> code, message |-> message]

\* ------------------------------------------------------- the server
Handlers == {"HomeHandler", "ArtistsHandler", "ArtistHandler", "SearchHandler"}

\* The requests a handler may be given; a parameter the handler does not
\* read is left empty.
Requests(h) ==
    CASE h = "HomeHandler" ->
            {Request(m, p, <<>>, "", <<>>) : m \in Methods, p \in Paths}
      [] h = "ArtistsHandler" ->
            {Request(m, p, q, "", <<>>) : m \in Methods, p \in Paths, q \in Queries}
      [] h = "ArtistHandler" ->
            {Request(m, p, <<>>, s, <<>>) : m \in Methods, p \in Paths, s \in Sections}
      [] OTHER ->
            {Request(m, <<"/", "s">>, <<>>, "", q) : m \in Methods, q \in Queries}

Init ==
    /\ handler = "HomeHandler"
    /\ r = Request(MethodGet, <<"/">>, <<>>, "", <<>>)
    /\ pc = "idle"
    /\ fetches = <<>>
    /\ returned = <<>>
    /\ result = <<>>
    /\ artists = <<>>
    /\ artistResult = ZeroArtist
    /\ datesResult = ""
    /\ locationsResult = ""
    /\ relationsResult = ""
    /\ w = NewResponseWriter
    /\ executed = <<>>
    /\ logs = <<>>

\* The server hands the next request to its handler, with a fresh
\* ResponseWriter.
Serve ==
    /\ pc = "idle"
    /\ \E h \in Handlers : \E req \in Requests(h) :
          /\ handler' = h
          /\ r' = req
    /\ pc' = "entry"
    /\ UNCHANGED <<fetches, returned, locals, w, executed, logs>>

\* The handler has returned: the response is complete, the handler's
\* locals are gone, and the server waits for the next request.
Return ==
    /\ pc = "done"
    /\ pc' = "idle"
    /\ handler' = "HomeHandler"
    /\ r' = Request(MethodGet, <<"/">>, <<>>, "", <<>>)
    /\ fetches' = <<>>
    /\ returned' = <<>>
    /\ result' = <<>>
    /\ artists' = <<>>
    /\ artistResult' = ZeroArtist
    /\ datesResult' = ""
    /\ locationsResult' = ""
    /\ relationsResult' = ""
    /\ w' = NewResponseWriter
    /\ executed' = <<>>
    /\ logs' = <<>>

\* ------------------------------------------------------- HomeHandler
HomeHandlerCheck(req) ==
    IF req.Path # <<"/">>
    THEN CheckFailed(404, "The Page you're trying to acess is unavailable")
    ELSE IF req.Method # MethodGet
    THEN CheckFailed(405, "Wrong method")
    ELSE NoCheckFailed

HomeHandler ==
    /\ pc = "entry"
    /\ handler = "HomeHandler"
    /\ pc' = "done"
    /\ UNCHANGED <<handler, r, fetches, returned, locals>>
    /\ \E parsed \in BOOLEAN, outcome \in ExecOutcomes, errOk \in BOOLEAN :
          LET check == HomeHandlerCheck(r)
          IN  IF check.code # 0
              THEN /\ w' = renderError(w, check.code, check.message, errOk)
                   /\ logs' = renderErrorLog(logs, errOk)
                   /\ executed' = executed
              ELSE RenderTemplate("home.html", <<>>, parsed, outcome, errOk)

\* ------------------------------------------------------- ArtistsHandler
\* ArtistsHandlerCheck with the method checked before the path.
ArtistsHandlerCheck_MethodFirst(req) ==
    IF req.Method # MethodGet
    THEN CheckFailed(405, "Wrong method")
    ELSE IF req.Path # <<"/", "a", "r", "t", "i", "s", "t", "s">>
            /\ req.Path # <<"/", "a", "r", "t", "i", "s", "t", "s", "/">>
    THEN CheckFailed(404, "The Page you're trying to access is unavailable")
    ELSE NoCheckFailed

ArtistsHandlerCheck(req) ==
    IF req.Path # <<"/", "a", "r", "t", "i", "s", "t", "s">>
       /\ req.Path # <<"/", "a", "r", "t", "i", "s", "t", "s", "/">>
    THEN CheckFailed(404, "The Page you're trying to access is unavailable")
    ELSE IF req.Method # MethodGet
    THEN CheckFailed(405, "Wrong method")
    ELSE NoCheckFailed

\* From the entry to the call of ReadArtists.
ArtistsHandler_Entry ==
    /\ pc = "entry"
    /\ handler = "ArtistsHandler"
    /\ UNCHANGED <<handler, r, returned, locals>>
    /\ LET check == ArtistsHandlerCheck(r)
       IN  IF check.code # 0
           THEN /\ \E errOk \in BOOLEAN : Fail(check.code, check.message, errOk)
                /\ fetches' = fetches
           ELSE /\ fetches' = Append(fetches, Fetch(ArtistsURL, <<>>))
                /\ pc' = "ReadArtists"
                /\ UNCHANGED <<w, executed, logs>>

\* From the return of ReadArtists to the end of the handler.
ArtistsHandler_ReadArtists ==
    /\ pc = "ReadArtists"
    /\ handler = "ArtistsHandler"
    /\ pc' = "done"
    /\ UNCHANGED <<handler, r, fetches, artists, artistResult, datesResult,
                   locationsResult, relationsResult>>
    /\ \E ret \in Returns(ArtistLists, <<>>) :
          /\ returned' = Append(returned, ret)
          /\ result' = ret.val
          /\ IF ret.err
             THEN \E errOk \in BOOLEAN :
                      /\ w' = renderError(w, 500, "Error fetching artists", errOk)
                      /\ logs' = renderErrorLog(logs, errOk)
                      /\ executed' = executed
             ELSE IF r.q # <<>>
             THEN /\ w' = EncodeJSON(w, searchArtists(ret.val, r.q))
                  /\ UNCHANGED <<executed, logs>>
             ELSE \E parsed \in BOOLEAN, outcome \in ExecOutcomes, errOk \in BOOLEAN :
                      RenderTemplate("artists.html", ret.val, parsed, outcome, errOk)

\* ------------------------------------------------------- SearchHandler
\* SearchHandlerCheck with the query checked before the method.
SearchHandlerCheck_QueryFirst(req) ==
    IF req.query = <<>>
    THEN CheckFailed(400, "Query parameter is missing")
    ELSE IF req.Method # MethodGet
    THEN CheckFailed(405, "Wrong method")
    ELSE NoCheckFailed

SearchHandlerCheck(req) ==
    IF req.Method # MethodGet
    THEN CheckFailed(405, "Wrong method")
    ELSE IF req.query = <<>>
    THEN CheckFailed(400, "Query parameter is missing")
    ELSE NoCheckFailed

\* From the entry to the call of ReadArtists.
SearchHandler_Entry ==
    /\ pc = "entry"
    /\ handler = "SearchHandler"
    /\ UNCHANGED <<handler, r, returned, locals>>
    /\ LET check == SearchHandlerCheck(r)
       IN  IF check.code # 0
           THEN /\ \E errOk \in BOOLEAN : Fail(check.code, check.message, errOk)
                /\ fetches' = fetches
           ELSE /\ fetches' = Append(fetches, Fetch(ArtistsURL, <<>>))
                /\ pc' = "ReadArtists"
                /\ UNCHANGED <<w, executed, logs>>

\* From the return of ReadArtists to the end of the handler.
SearchHandler_ReadArtists ==
    /\ pc = "ReadArtists"
    /\ handler = "SearchHandler"
    /\ UNCHANGED <<handler, r, fetches, result, artistResult, datesResult,
                   locationsResult, relationsResult>>
    /\ \E ret \in Returns(ArtistLists, <<>>) :
          /\ returned' = Append(returned, ret)
          /\ artists' = ret.val
          /\ IF ret.err
             THEN \E errOk \in BOOLEAN :
                      Fail(500, "Error fetching artist data", errOk)
             ELSE /\ w' = EncodeJSON(w, SearchResults(ret.val, r.query))
                  /\ pc' = "done"
                  /\ UNCHANGED <<executed, logs>>

\* ------------------------------------------------------- ArtistHandler
ArtistPrefix == <<"/", "a", "r", "t", "i", "s", "t", "/">>

\* The values of section the handler accepts.
ValidSection(section) ==
    section = "" \/ section = "locations" \/ section = "dates"
        \/ section = "relations" \/ section = "all"

\* ArtistHandlerCheck with the path checked before the method.
ArtistHandlerCheck_PathFirst(req) ==
    IF ~HasPrefix(req.Path, ArtistPrefix) \/ Len(Split(req.Path)) # 3
    THEN CheckFailed(404, "The Page you're trying to access is unavailable")
    ELSE IF req.Method # MethodGet
    THEN CheckFailed(405, "Wrong method")
    ELSE IF ~ValidSection(req.section)
    THEN CheckFailed(404, "The section you're trying to access is unavailable")
    ELSE NoCheckFailed

\* The checks before the first fetch, in the order of the code.
ArtistHandlerCheck(req) ==
    IF req.Method # MethodGet
    THEN CheckFailed(405, "Wrong method")
    ELSE IF ~HasPrefix(req.Path, ArtistPrefix) \/ Len(Split(req.Path)) # 3
    THEN CheckFailed(404, "The Page you're trying to access is unavailable")
    ELSE IF Len(Split(req.Path)) < 3
    THEN CheckFailed(400, "Artist ID not found")
    ELSE IF ~ValidSection(req.section)
    THEN CheckFailed(404, "The section you're trying to access is unavailable")
    ELSE NoCheckFailed

\* id := id1[len(id1)-1]
ArtistID(path) == LET id1 == Split(path) IN id1[Len(id1)]

\* ArtistNotFound without the test of the decoded ID.
ArtistNotFound_ErrOnly(ret) == ret.err

\* err != nil || artistResult.ID == 0
ArtistNotFound(ret) == ret.err \/ ret.val.ID = 0

\* ArtistData with the dates and the relations exchanged.
ArtistData_Swapped(artist, dates, locations, relations, section) ==
    [Artist |-> artist, Dates |-> relations, Locations |-> locations,
     Relations |-> dates, Section |-> section, CreationDate |-> 0,
     ConcertDates |-> <<>>]

\* type ArtistData, as ArtistHandler fills it.
ArtistData(artist, dates, locations, relations, section) ==
    [Artist |-> artist, Dates |-> dates, Locations |-> locations,
     Relations |-> relations, Section |-> section, CreationDate |-> 0,
     ConcertDates |-> <<>>]

\* From the entry to the call of ReadArtist.
ArtistHandler_Entry ==
    /\ pc = "entry"
    /\ handler = "ArtistHandler"
    /\ UNCHANGED <<handler, r, returned, locals>>
    /\ LET check == ArtistHandlerCheck(r)
       IN  IF check.code # 0
           THEN /\ \E errOk \in BOOLEAN : Fail(check.code, check.message, errOk)
                /\ fetches' = fetches
           ELSE /\ fetches' = Append(fetches, Fetch(ArtistURL, ArtistID(r.Path)))
                /\ pc' = "ReadArtist"
                /\ UNCHANGED <<w, executed, logs>>

\* From the return of ReadArtist to the call of ReadDate.
ArtistHandler_ReadArtist ==
    /\ pc = "ReadArtist"
    /\ handler = "ArtistHandler"
    /\ UNCHANGED <<handler, r, result, artists, datesResult, locationsResult,
                   relationsResult>>
    /\ \E ret \in Returns(ArtistResults, ZeroArtist) :
          /\ returned' = Append(returned, ret)
          /\ artistResult' = ret.val
          /\ IF ArtistNotFound(ret)
             THEN /\ \E errOk \in BOOLEAN :
                        Fail(404, "The Page you're trying to access is unavailable",
                             errOk)
                  /\ fetches' = fetches
             ELSE /\ fetches' = Append(fetches, Fetch(DatesURL, ArtistID(r.Path)))
                  /\ pc' = "ReadDate"
                  /\ UNCHANGED <<w, executed, logs>>

\* From the return of ReadDate to the call of ReadLocation.
ArtistHandler_ReadDate ==
    /\ pc = "ReadDate"
    /\ handler = "ArtistHandler"
    /\ UNCHANGED <<handler, r, result, artists, artistResult, locationsResult,
                   relationsResult>>
    /\ \E ret \in Returns(DateEntries, "") :
          /\ returned' = Append(returned, ret)
          /\ datesResult' = ret.val
          /\ IF ret.err
             THEN /\ \E errOk \in BOOLEAN : Fail(500, "Error fetching dates", errOk)
                  /\ fetches' = fetches
             ELSE /\ fetches' = Append(fetches, Fetch(LocationsURL, ArtistID(r.Path)))
                  /\ pc' = "ReadLocation"
                  /\ UNCHANGED <<w, executed, logs>>

\* From the return of ReadLocation to the call of ReadRelations.
ArtistHandler_ReadLocation ==
    /\ pc = "ReadLocation"
    /\ handler = "ArtistHandler"
    /\ UNCHANGED <<handler, r, result, artists, artistResult, datesResult,
                   relationsResult>>
    /\ \E ret \in Returns(LocationValues, "") :
          /\ returned' = Append(returned, ret)
          /\ locationsResult' = ret.val
          /\ IF ret.err
             THEN /\ \E errOk \in BOOLEAN : Fail(500, "Error fetching locations", errOk)
                  /\ fetches' = fetches
             ELSE /\ fetches' = Append(fetches, Fetch(RelationsURL, ArtistID(r.Path)))
                  /\ pc' = "ReadRelations"
                  /\ UNCHANGED <<w, executed, logs>>

\* From the return of ReadRelations to the end of the handler.
ArtistHandler_ReadRelations ==
    /\ pc = "ReadRelations"
    /\ handler = "ArtistHandler"
    /\ pc' = "done"
    /\ UNCHANGED <<handler, r, fetches, result, artists, artistResult,
                   datesResult, locationsResult>>
    /\ \E ret \in Returns(RelationValues, "") :
          /\ returned' = Append(returned, ret)
          /\ relationsResult' = ret.val
          /\ IF ret.err
             THEN \E errOk \in BOOLEAN :
                      /\ w' = renderError(w, 500, "Error fetching relations", errOk)
                      /\ logs' = renderErrorLog(logs, errOk)
                      /\ executed' = executed
             ELSE \E parsed \in BOOLEAN, outcome \in ExecOutcomes, errOk \in BOOLEAN :
                      RenderTemplate("artist.html",
                                     ArtistData(artistResult, datesResult,
                                                locationsResult, ret.val, r.section),
                                     parsed, outcome, errOk)

\* ------------------------------------------------------- specification
Next ==
    \/ Serve
    \/ Return
    \/ HomeHandler
    \/ ArtistsHandler_Entry
    \/ ArtistsHandler_ReadArtists
    \/ ArtistHandler_Entry
    \/ ArtistHandler_ReadArtist
    \/ ArtistHandler_ReadDate
    \/ ArtistHandler_ReadLocation
    \/ ArtistHandler_ReadRelations
    \/ SearchHandler_Entry
    \/ SearchHandler_ReadArtists

Spec == Init /\ [][Next]_vars

\* ------------------------------------------------------- vocabulary
Done == pc = "done"

\* The response is one error page with the one status `code`.
ErrorPage(code) ==
    /\ w.status = code
    /\ w.headerCalls = <<code>>
    /\ Len(w.body) = 1
    /\ w.body[1].kind = "error"
    /\ w.body[1].code = code

\* The response is the error page with `code` and `message`.
ErrorPageSaying(code, message) ==
    /\ ErrorPage(code)
    /\ w.body[1].message = message

\* Number of "/" in a path: it splits into one segment more.
SlashCount(path) == Cardinality({i \in 1..Len(path) : path[i] = "/"})

\* A path of the form /artist/<id>.
WellFormedArtistPath(path) ==
    /\ HasPrefix(path, ArtistPrefix)
    /\ SlashCount(path) = 2

\* The <id> of a well-formed path: what follows "/artist/".
PathID(path) == SubSeq(path, Len(ArtistPrefix) + 1, Len(path))

\* The i-th upstream call returned without error.
Succeeded(i) == i <= Len(returned) /\ ~returned[i].err

\* No two upstream GETs of this request went to the same endpoint.
NoRefetch ==
    \A i, j \in 1..Len(fetches) : fetches[i].url = fetches[j].url => i = j

\* ------------------------------------------------------- ArtistHandler
\* The four endpoints in the order ArtistHandler is to call them.
ArtistEndpoints == <<ArtistURL, DatesURL, LocationsURL, RelationsURL>>

ArtistFetchFailed(i) ==
    /\ i <= Len(returned)
    /\ \/ returned[i].err
       \/ i = 1 /\ returned[1].val.ID = 0

\* C2: in ArtistHandler a failed fetch is the last fetch of the request and is
\* not retried; the response is then one error page, 404 for the artist fetch
\* (an error or ID 0) and 500 for dates, locations and relations, and the
\* artist template is not executed.
C2_FailedFetchEndsRequest ==
    handler = "ArtistHandler" =>
        /\ NoRefetch
        /\ \A i \in 1..Len(returned) :
              ArtistFetchFailed(i) =>
                  /\ Done
                  /\ Len(returned) = i
                  /\ Len(fetches) = i
                  /\ ErrorPage(IF i = 1 THEN 404 ELSE 500)
                  /\ executed = <<>>
                  /\ \A k \in 1..Len(w.body) : w.body[k].kind # "template"

C2_Witness ==
    /\ handler = "ArtistHandler"
    /\ Done
    /\ Len(returned) = 1
    /\ ~returned[1].err
    /\ returned[1].val.ID = 0
    /\ ErrorPage(404)
    /\ Len(fetches) = 1

\* C3: ArtistHandler answers a non-GET request with 405; otherwise a path that
\* is not /artist/ followed by exactly one segment with 404; otherwise a
\* section other than "", locations, dates, relations, all with 404; and it
\* issues an upstream fetch only when none of these applies.
C3_ChecksBeforeFetch ==
    handler = "ArtistHandler" =>
        LET rejected ==
                \/ r.Method # "GET"
                \/ ~WellFormedArtistPath(r.Path)
                \/ r.section \notin {"", "locations", "dates", "relations", "all"}
        IN  /\ rejected => fetches = <<>> /\ returned = <<>>
            /\ (Done /\ rejected) =>
                  IF r.Method # "GET"
                  THEN ErrorPageSaying(405, "Wrong method")
                  ELSE IF ~WellFormedArtistPath(r.Path)
                  THEN ErrorPageSaying(404,
                           "The Page you're trying to access is unavailable")
                  ELSE ErrorPageSaying(404,
                           "The section you're trying to access is unavailable")

C3_Witness ==
    /\ handler = "ArtistHandler"
    /\ Done
    /\ r.Method = "GET"
    /\ WellFormedArtistPath(r.Path)
    /\ r.section = "members"
    /\ ErrorPage(404)
    /\ fetches = <<>>

\* ------------------------------------------------------- searchArtists
\* The response is one JSON document, sent with status 200.
JSONWritten ==
    /\ Done
    /\ w.status = 200
    /\ w.headerCalls = <<>>
    /\ Len(w.body) = 1
    /\ w.body[1].kind = "json"

\* The search of ArtistsHandler ran: its input list, and the list it wrote.
SearchRan == handler = "ArtistsHandler" /\ JSONWritten

\* The five ways an artist matches the lower-cased query q.
NameMatches(a, q) == Contains(ToLower(a.Name), q)

MemberMatches(a, q) ==
    \E m \in 1..Len(a.Members) : Contains(ToLower(a.Members[m]), q)

LocationMatches(a, q) == Contains(ToLower(a.Locations), q)

ConcertDatesMatch(a, q) == Contains(a.ConcertDates, q)

CreationYearMatches(a, q) == ~Atoi(q).err /\ Atoi(q).val = a.CreationDate

Matches(a, q) ==
    \/ NameMatches(a, q)
    \/ MemberMatches(a, q)
    \/ LocationMatches(a, q)
    \/ ConcertDatesMatch(a, q)
    \/ CreationYearMatches(a, q)

RECURSIVE IsSubsequence(_, _)
IsSubsequence(a, b) ==
    IF a = <<>> THEN TRUE
    ELSE IF b = <<>> THEN FALSE
    ELSE IF Head(a) = Head(b) THEN IsSubsequence(Tail(a), Tail(b))
    ELSE IsSubsequence(a, Tail(b))

\* C5: the list searchArtists returns is a subsequence of its input: the
\* artists are in input order and none appears more often than in the input.
C5_SearchArtistsIsFilter ==
    SearchRan => IsSubsequence(w.body[1].data, result)

\* ------------------------------------------------------- ArtistsHandler
ArtistsPaths ==
    { <<"/", "a", "r", "t", "i", "s", "t", "s">>,
      <<"/", "a", "r", "t", "i", "s", "t", "s", "/">> }

\* What C6 says of every case but the rendering of the page.
C6_Common ==
    /\ NoRefetch
    /\ Len(fetches) <= 1
    /\ (r.Path \notin ArtistsPaths \/ r.Method # "GET") =>
          /\ fetches = <<>>
          /\ Done => ErrorPage(IF r.Path \notin ArtistsPaths THEN 404 ELSE 405)
    /\ (Done /\ r.Path \in ArtistsPaths /\ r.Method = "GET") =>
          /\ fetches = <<Fetch(ArtistsURL, <<>>)>>
          /\ Len(returned) = 1
          /\ returned[1].err =>
                ErrorPage(500) /\ executed = <<>>
          /\ (~returned[1].err /\ r.q # <<>>) =>
                /\ JSONWritten
                /\ w.body[1].data = searchArtists(returned[1].val, r.q)
                /\ executed = <<>>

\* The artists template was executed once, with the full fetched list.
C6_PageRendered ==
    /\ executed = << <<"artists.html", returned[1].val>> >>
    /\ \A k \in 1..Len(w.body) : w.body[k].kind # "json"

\* The case of C6_Common's last conjunct with an empty q.
C6_PageCase ==
    /\ handler = "ArtistsHandler"
    /\ Done
    /\ r.Path \in ArtistsPaths
    /\ r.Method = "GET"
    /\ ~returned[1].err
    /\ r.q = <<>>

\* C6 as stated: ArtistsHandler checks the path (404) and then the method
\* (405) before it fetches; it fetches the list once, answers 500 when the
\* fetch fails, writes the searchArtists result as JSON when q is non-empty,
\* and renders the artists template with the full list when q is empty.
C6_AsStated ==
    handler = "ArtistsHandler" =>
        /\ C6_Common
        /\ C6_PageCase => C6_PageRendered

\* C6, amended: as C6_AsStated, but with q empty the artists template is
\* rendered with the full list only if it loads; if it fails to load the
\* response is the 500 page "Error loading template" and nothing is rendered.
C6_ArtistsHandlerFlow ==
    handler = "ArtistsHandler" =>
        /\ C6_Common
        /\ C6_PageCase =>
              \/ C6_PageRendered
              \/ /\ executed = <<>>
                 /\ ErrorPageSaying(500, "Error loading template")

C6_Witness ==
    /\ C6_PageCase
    /\ C6_PageRendered
    /\ Len(returned[1].val) = 2
    /\ w.status = 200
    /\ Len(w.body) = 1
    /\ w.body[1].complete

\* ------------------------------------------------------- SearchHandler
\* C7: SearchHandler answers a non-GET request with 405 and otherwise an
\* empty query with 400, both without a fetch; a GET with a query fetches the
\* artist list exactly once, and a failed fetch yields 500 and no JSON.
C7_SearchHandlerChecks ==
    handler = "SearchHandler" =>
        /\ NoRefetch
        /\ Len(fetches) <= 1
        /\ (r.Method # "GET" \/ r.query = <<>>) =>
              /\ fetches = <<>>
              /\ Done => ErrorPage(IF r.Method # "GET" THEN 405 ELSE 400)
        /\ (Done /\ r.Method = "GET" /\ r.query # <<>>) =>
              /\ fetches = <<Fetch(ArtistsURL, <<>>)>>
              /\ Len(returned) = 1
              /\ returned[1].err =>
                    /\ ErrorPage(500)
                    /\ \A k \in 1..Len(w.body) : w.body[k].kind # "json"
              /\ ~returned[1].err => JSONWritten

C7_Witness ==
    /\ handler = "SearchHandler"
    /\ Done
    /\ r.Method = "GET"
    /\ r.query # <<>>
    /\ Len(fetches) = 1
    /\ returned[1].err
    /\ ErrorPage(500)

\* The entries SearchHandler is to write for one artist and lower-cased q.
EntriesFor(a, q) ==
    (IF Contains(ToLower(a.FirstAlbum), q)
     THEN <<[Name |-> a.Name, Type |-> "first album date"]>> ELSE <<>>)
    \o (IF Contains(Itoa(a.CreationDate), q)
        THEN <<[Name |-> a.Name, Type |-> "creation date"]>> ELSE <<>>)

\* The entries for the artists list[1..n], in list order.
RECURSIVE EntriesUpTo(_, _, _)
EntriesUpTo(list, n, q) ==
    IF n = 0 THEN <<>>
    ELSE EntriesUpTo(list, n - 1, q) \o EntriesFor(list[n], q)

\* C8: the list a successful SearchHandler writes is, artist by artist in
\* list order, (Name, "first album date") when the lower-cased FirstAlbum
\* contains the lower-cased query, then (Name, "creation date") when the
\* decimal string of CreationDate contains it, and nothing else.
C8_SearchHandlerResults ==
    (handler = "SearchHandler" /\ JSONWritten) =>
        w.body[1].data = EntriesUpTo(artists, Len(artists), ToLower(r.query))

\* An artist found on both fields, after one found on neither.
C8_Witness ==
    /\ handler = "SearchHandler"
    /\ JSONWritten
    /\ Len(artists) = 2
    /\ artists[1].Name # artists[2].Name
    /\ w.body[1].data = <<[Name |-> artists[2].Name, Type |-> "first album date"],
                          [Name |-> artists[2].Name, Type |-> "creation date"]>>

\* ------------------------------------------------------- every handler
\* C9: every handler run ends with exactly one response outcome: one error
\* page with its one status code, or one success body with status 200 and no
\* error page and no second status code after it.
C9_OneResponseOutcome ==
    Done =>
        /\ Len(w.body) = 1
        /\ IF w.body[1].kind = "error"
           THEN w.headerCalls = <<w.body[1].code>> /\ w.status = w.body[1].code
           ELSE w.headerCalls = <<>> /\ w.status = 200

\* The path "/artist/": no artist ID after the prefix.
NoIDPath == ArtistPrefix

\* C10: a GET of "/artist/" ends ArtistHandler with the 400 page "Artist ID
\* not found" and without a fetch, and ArtistHandler never issues a fetch
\* with an empty id.
C10_EmptyIDRejected ==
    handler = "ArtistHandler" =>
        /\ (Done /\ r.Method = "GET" /\ r.Path = NoIDPath /\ r.section = "") =>
              /\ ErrorPageSaying(400, "Artist ID not found")
              /\ fetches = <<>>
        /\ \A i \in 1..Len(fetches) : fetches[i].id # <<>>

====
